---------------------------- MODULE Spec2Model ----------------------------
(***************************************************************************)
(* Model of the GamePage component (pages/Game.jsx, src/unnamed/part_000): *)
(* an HTML5-canvas infinite runner driven by requestAnimationFrame.        *)
(*                                                                         *)
(* Arithmetic is exact fixed point.  Time advances on a grid of StepMs     *)
(* milliseconds, so an elapsed time is a number k of steps and             *)
(* dt = k / SPS seconds.  Lengths are kept in units of 1/PX pixel with     *)
(* PX = SPS * SPS, the speed in units of 1/SPS px/s and vy in px/s; with   *)
(* these units every product the loop computes is an integer:              *)
(*    vy    += gravity * dt        is   vy    + (gravity * k) / SPS        *)
(*    y     += vy * dt             is   y     + vy * k * SPS               *)
(*    x     -= speed * dt          is   x     - speed * k                  *)
(*    speed += acceleration * dt   is   speed + acceleration * k           *)
(***************************************************************************)
EXTENDS Integers, Sequences, FiniteSets, TLC

-----------------------------------------------------------------------------
(* Bounds of the model *)

\* largest elapsed time between two frames, in steps (the code caps it)
MaxElapsed == 3
\* a session is followed until its speed reaches this many px/s
MaxSpeed == 515
\* a session whose frames arrive at a fixed interval is followed until its
\* speed reaches this many px/s
MaxRunSpeed == 1001
\* in a session that keeps running, Math.random() is sampled at more than one
\* value while the speed is below this many px/s
MaxDrawSpeed == 550
\* frames shorter than the cap are followed while the speed is below this many px/s
MaxShortSpeed == 481
\* number of values Math.random() is sampled at, per use
GapChoices == 2
WidthChoices == 1
HeightChoices == 1
\* number of input events (keys, touches, resizes) followed after the mount
MaxInputs == 2
\* largest coordinate and side of the rectangles rectsCollide is applied to
MaxCoord == 2
\* largest high score found in localStorage at startup
MaxStoredHigh == 1
\* number of residue classes in which the score is observed
ScoreClasses == 4

-----------------------------------------------------------------------------
(* Units *)

StepMs == 40 \div 2
SPS == 1000 \div StepMs
PX == SPS * SPS

-----------------------------------------------------------------------------
(* Game configuration: the config object and the literals of the loop *)

gravity == 2000
groundHeight == 96
playerW == 44
playerH == 44
startX == 80
startYOffset == 0
obstacleMinGap == 360
obstacleMaxGap == 700
obstacleSpeedStart == 480
obstacleAcceleration == 20
spawnEarlyTime == 1200
jumpImpulse == 820
maxDtMs == 40
minCanvasWidth == 320
minCanvasHeight == 240
offscreenMargin == 100
groundTile == 60
obstacleMinWidth == 28
obstacleWidthRange == 48
obstacleMinHeight == 36
obstacleHeightRange == 64
\* height of the canvas container in CSS pixels (style height: 420)
clientHeight == 420

\* widths the canvas element can take (w-full inside max-w-4xl)
ClientWidths == {320}
\* window.devicePixelRatio, in halves: 0.5 and 1
Dprs == {1, 2}
\* the widths and the pixel ratio of the sessions in which the canvas gets
\* wide: the canvas is at most 896 CSS pixels wide (max-w-4xl), and wider
\* than spawnEarlyTime device pixels on a display of pixel ratio 2
WideWidths == {320, 896}
WideDprs == {4}

Min(a, b) == IF a < b THEN a ELSE b
Max(a, b) == IF a > b THEN a ELSE b

-----------------------------------------------------------------------------
VARIABLES
  running,       \* React state `running`
  score,         \* React state `score` (the displayed score)
  highScore,     \* React state `highScore`
  paused,        \* React state `paused`
  gameStateRef,  \* gameStateRef.current: the session state
  lastTimeRef,   \* lastTimeRef.current: 0 when unset, 1 when it holds the last timestamp
  closure,       \* the values of paused, score and highScore captured by the loop effect
  canvas,        \* canvas.width and canvas.height (device pixels)
  dpr,           \* window.devicePixelRatio, in halves
  localStorage,  \* the number stored under 'classic-highscore'
  writeFailed,   \* observation: some localStorage.setItem has thrown
  lastOp,        \* observation: the handler that ran last
  inputs,        \* observation: the number of input events handled so far
  rafQueue,      \* the pending requestAnimationFrame callbacks, in request order:
                 \* each with the closure of its loop, and whether
                 \* requestRef.current holds its request id
  mounted,       \* the component is mounted
  frameStep,     \* the display's frame interval in steps, 0 when frames are irregular
  maxScore,      \* observation: the largest of the loaded high score and the
                 \* scores of the sessions that have ended
  rectA, rectB,  \* the arguments of a call of rectsCollide on its own
  rectHit,       \* its result, in a sequence that is empty before the call
  isJumping,     \* Classics: React state `isJumping`
  classicsScore, \* Classics: React state `score`
  effects,       \* Classics: the closures of the runs of the effect, in order
                 \* (the last one is the current run); empty while the
                 \* component is not rendered
  classicsOp     \* Classics, observation: the callback that ran last

gameVars == <<running, score, highScore, paused, gameStateRef, lastTimeRef,
              closure, canvas, dpr, localStorage, writeFailed, lastOp, inputs,
              rafQueue, mounted, frameStep, maxScore>>
rectVars == <<rectA, rectB, rectHit>>
classicsVars == <<isJumping, classicsScore, effects, classicsOp>>
otherVars == <<rectVars, classicsVars>>
vars == <<gameVars, rectVars, classicsVars>>

-----------------------------------------------------------------------------
(* Pure helpers *)

\* resetGameState(): a fresh session
resetGameState ==
  [ player |-> [ x |-> startX * PX, y |-> 0, vy |-> 0,
                 width |-> playerW * PX, height |-> playerH * PX,
                 grounded |-> FALSE ],
    obstacles |-> << >>,
    lastSpawnX |-> 0,
    speed |-> obstacleSpeedStart * SPS,
    score |-> 0,
    running |-> TRUE,
    groundOffset |-> 0 ]

\* rectsCollide without its tests on the vertical axis
rectsCollideXOnly(a, b) ==
  ~ ( \/ a.x + a.width < b.x
      \/ a.x > b.x + b.width )

\* rectsCollide(a, b)
rectsCollide(a, b) ==
  ~ ( \/ a.x + a.width < b.x
      \/ a.x > b.x + b.width
      \/ a.y + a.height < b.y
      \/ a.y > b.y + b.height )

\* the canvas size resize() sets for a client width w and a pixel ratio d
resizedCanvas(w, d) ==
  [ width  |-> Max(minCanvasWidth, (w * d) \div 2),
    height |-> Max(minCanvasHeight, (clientHeight * d) \div 2) ]

\* canvas.height / devicePixelRatio and canvas.width / devicePixelRatio, in length units
viewH(cv, d) == (cv.height * 2 * PX) \div d
viewW(cv, d) == (cv.width * 2 * PX) \div d

\* groundY of the loop: the y of a player standing on the ground
groundYOf(cv, d, p) == viewH(cv, d) - groundHeight * PX - p.height + startYOffset * PX

\* dt of the loop, in steps, for a frame arriving `elapsed` steps after the last one
dtOf(last, elapsed) == IF last = 0 THEN 0 ELSE Min(maxDtMs \div StepMs, elapsed)

\* the ground clamp without the snap of y to the ground line
clampWithoutSnap(p, groundY) ==
  IF p.y >= groundY
    THEN [p EXCEPT !.vy = 0, !.grounded = TRUE]
    ELSE p

\* update physics: the ground clamp
clampToGround(p, groundY) ==
  IF p.y >= groundY
    THEN [p EXCEPT !.y = groundY, !.vy = 0, !.grounded = TRUE]
    ELSE p

\* update physics: gravity, the move, then the ground clamp
updatePlayer(p, groundY, k) ==
  LET vy1 == p.vy + (gravity * k) \div SPS
      p1  == [p EXCEPT !.vy = vy1, !.y = p.y + vy1 * k * SPS]
  IN  clampToGround(p1, groundY)

\* remove off-screen obstacles
RECURSIVE filterSeq(_)
filterSeq(s) ==
  IF s = << >> THEN << >>
  ELSE IF Head(s).x + Head(s).width > -(offscreenMargin * PX)
         THEN <<Head(s)>> \o filterSeq(Tail(s))
         ELSE filterSeq(Tail(s))

\* move obstacles without removing the off-screen ones
moveObstaclesKeepingAll(obs, speed, k) ==
  [i \in 1..Len(obs) |-> [obs[i] EXCEPT !.x = obs[i].x - speed * k]]

\* move obstacles, then remove the off-screen ones
moveObstacles(obs, speed, k) ==
  filterSeq([i \in 1..Len(obs) |-> [obs[i] EXCEPT !.x = obs[i].x - speed * k]])

\* the spawn test of the loop
shouldSpawn(obs, canvasW) ==
  IF Len(obs) = 0 THEN TRUE
  ELSE obs[Len(obs)].x < (canvasW - spawnEarlyTime) * PX

\* whether the frame that moves the obstacles by k steps spawns one
willSpawn(st, canvasW, k) == shouldSpawn(moveObstacles(st.obstacles, st.speed, k), canvasW)

\* an obstacle created at x = gap, without the canvas width
newObstacleAtGap(canvasW, rg, rh, rw) ==
  [ x |-> obstacleMinGap * PX
            + (rg * (obstacleMaxGap - obstacleMinGap) * PX) \div GapChoices,
    y |-> 0,
    width |-> obstacleMinWidth * PX + (rw * obstacleWidthRange * PX) \div WidthChoices,
    height |-> obstacleMinHeight * PX + (rh * obstacleHeightRange * PX) \div HeightChoices ]

\* spawnObstacle(canvasW): the three Math.random() draws are rg/GapChoices,
\* rh/HeightChoices and rw/WidthChoices
newObstacle(canvasW, rg, rh, rw) ==
  [ x |-> canvasW * PX + obstacleMinGap * PX
            + (rg * (obstacleMaxGap - obstacleMinGap) * PX) \div GapChoices,
    y |-> 0,
    width |-> obstacleMinWidth * PX + (rw * obstacleWidthRange * PX) \div WidthChoices,
    height |-> obstacleMinHeight * PX + (rh * obstacleHeightRange * PX) \div HeightChoices ]

\* the score gain with Math.floor applied to dt * 0.05 alone
scoreGainFloorFirst(speed, k) == speed * (k \div (SPS * 20))

\* Math.floor(state.speed * dt * 0.05)
scoreGain(speed, k) == (speed * k) \div (PX * 20)

\* the rectangles of the collision detection
playerRect(p) == [x |-> p.x, y |-> p.y, width |-> p.width, height |-> p.height]
obstacleRect(o, cv, d) ==
  [ x |-> o.x, y |-> viewH(cv, d) - groundHeight * PX - o.height,
    width |-> o.width, height |-> o.height ]

\* collision detection: some obstacle is found to collide with the player
collides(st, cv, d) ==
  \E i \in 1..Len(st.obstacles) :
     rectsCollide(playerRect(st.player), obstacleRect(st.obstacles[i], cv, d))

\* the guard of the update steps without its test of paused
shouldUpdateUnpaused(cl, st) == st.running

\* the guard of the update steps
shouldUpdate(cl, st) == ~cl.paused /\ st.running

\* the guard of the high score update at game over
beatsHighScore(st, cl) == st.score > cl.highScore

\* a jump that starts the session afresh, as the effect of the Classics
\* component (src/unnamed/part_001) does when isJumping changes
jumpedAfresh(st) ==
  IF ~st.running THEN st
  ELSE IF st.player.grounded
         THEN [resetGameState EXCEPT !.player.vy = -jumpImpulse]
         ELSE st

\* a jump that also starts a new session after game over, as the key that
\* jumps does in many runner games
jumpedOrRevived(st) ==
  IF ~st.running THEN resetGameState
  ELSE IF st.player.grounded
         THEN [st EXCEPT !.player.vy = -jumpImpulse, !.player.grounded = FALSE]
         ELSE st

\* a jump that leaves the player grounded, so that it can be repeated in the air
jumpedStillGrounded(st) ==
  IF ~st.running THEN st
  ELSE IF st.player.grounded
         THEN [st EXCEPT !.player.vy = -jumpImpulse]
         ELSE st

\* jump()
jumped(st) ==
  IF ~st.running THEN st
  ELSE IF st.player.grounded
         THEN [st EXCEPT !.player.vy = -jumpImpulse, !.player.grounded = FALSE]
         ELSE st

\* the update steps of one frame, up to the collision detection
updated(st, cv, d, k, rg, rh, rw) ==
  LET p1     == updatePlayer(st.player, groundYOf(cv, d, st.player), k)
      obs1   == moveObstacles(st.obstacles, st.speed, k)
      speed1 == st.speed + obstacleAcceleration * k
      spawn  == shouldSpawn(obs1, cv.width)
      o      == newObstacle(cv.width, rg, rh, rw)
      obs2   == IF spawn THEN Append(obs1, o) ELSE obs1
  IN  [ st EXCEPT !.player = p1,
                  !.obstacles = obs2,
                  !.lastSpawnX = IF spawn THEN o.x ELSE st.lastSpawnX,
                  !.speed = speed1,
                  !.score = st.score + scoreGain(speed1, k),
                  !.groundOffset = (st.groundOffset + speed1 * k) % (groundTile * PX) ]

\* the write of a new high score whose exception is not caught: the throw
\* ends the callback before setHighScore
storeHighScoreUncaught(hs, ls, sc, ok) ==
  IF ok THEN [highScore |-> sc, localStorage |-> sc]
        ELSE [highScore |-> hs, localStorage |-> ls]

\* try { localStorage.setItem(...) } catch (e) {}; setHighScore(state.score):
\* the high score in memory and persisted after the write of score sc, which
\* returns (ok) or throws (~ok)
storeHighScore(hs, ls, sc, ok) ==
  [highScore |-> sc, localStorage |-> IF ok THEN sc ELSE ls]

\* the closure the loop effect creates in a render with these state values
loopClosure(p, s, h) == [paused |-> p, score |-> s, highScore |-> h]

\* requestRef.current = requestAnimationFrame(loop), for the loop of closure cl:
\* the request joins the queue and requestRef.current holds its id alone
requestAnimationFrame(q, cl) ==
  Append([i \in 1..Len(q) |-> [q[i] EXCEPT !.current = FALSE]],
         [closure |-> cl, current |-> TRUE])

\* a cleanup that cancels nothing
cancelNothing(q) == q

\* cancelAnimationFrame(requestRef.current): the request whose id
\* requestRef.current holds leaves the queue, if it is still pending
cancelAnimationFrame(q) == SelectSeq(q, LAMBDA f : ~f.current)

\* the elapsed times, in steps, a frame can arrive after
frameSteps == IF frameStep = 0 THEN 1..MaxElapsed ELSE {frameStep}

\* the speed, in px/s, up to which a session is followed
speedCap == IF frameStep = 0 THEN MaxSpeed ELSE MaxRunSpeed

-----------------------------------------------------------------------------
(* Initial state: the component is mounted and its three effects have run *)

NoRect == [x |-> 0, y |-> 0, width |-> 0, height |-> 0]

\* the Classics component is not on the page
ClassicsNotRendered ==
  /\ isJumping = FALSE /\ classicsScore = 0
  /\ effects = << >> /\ classicsOp = "none"

InitGameOn(widths, dprs) ==
  /\ running = TRUE
  /\ score = 0
  /\ localStorage \in 0..MaxStoredHigh
  /\ highScore = localStorage
  /\ maxScore = localStorage
  /\ paused = FALSE
  /\ gameStateRef = resetGameState
  /\ lastTimeRef = 0
  /\ closure = loopClosure(FALSE, 0, highScore)
  /\ dpr \in dprs
  /\ \E w \in widths : canvas = resizedCanvas(w, dpr)
  /\ rafQueue = requestAnimationFrame(<< >>, closure)
  /\ mounted = TRUE
  /\ writeFailed = FALSE
  /\ lastOp = "mount"
  /\ inputs = 0

InitGame == InitGameOn(ClientWidths, Dprs)

Init ==
  /\ InitGame
  /\ frameStep = 0
  /\ rectA = NoRect /\ rectB = NoRect /\ rectHit = << >>
  /\ ClassicsNotRendered

-----------------------------------------------------------------------------
(* Actions *)

\* loop(timestamp), a frame in which the update steps run; ok tells whether
\* localStorage.setItem returns (TRUE) or throws (FALSE) if it is called
\* (st1 is the session after the update steps, hit the outcome of the
\* collision detection; each is computed once)
TickUpdate(cl, elapsed, rg, rh, rw, ok) ==
  \E st1 \in {updated(gameStateRef, canvas, dpr, dtOf(lastTimeRef, elapsed), rg, rh, rw)} :
  \E hit \in {collides(st1, canvas, dpr)} :
  LET new == hit /\ beatsHighScore(st1, cl)
      stored == storeHighScore(highScore, localStorage, st1.score, ok)
  IN  /\ shouldUpdate(cl, gameStateRef)
      /\ gameStateRef.speed < speedCap * SPS
      /\ (frameStep = 0 /\ elapsed < maxDtMs \div StepMs)
            => gameStateRef.speed < MaxShortSpeed * SPS
      /\ willSpawn(gameStateRef, canvas.width, dtOf(lastTimeRef, elapsed))
           \/ (rg = 0 /\ rh = 0 /\ rw = 0)
      /\ new \/ ok
      /\ lastTimeRef' = 1
      /\ gameStateRef' = IF hit THEN [st1 EXCEPT !.running = FALSE] ELSE st1
      /\ score' = IF st1.score > cl.score THEN st1.score ELSE score
      /\ running' = IF hit THEN FALSE ELSE running
      /\ highScore' = IF new THEN stored.highScore ELSE highScore
      /\ localStorage' = IF new THEN stored.localStorage ELSE localStorage
      /\ writeFailed' = (writeFailed \/ ~ok)
      /\ maxScore' = IF hit THEN Max(maxScore, st1.score) ELSE maxScore
      /\ lastOp' = "update"
      /\ UNCHANGED <<paused, closure, canvas, dpr, inputs, mounted, frameStep,
                     otherVars>>

\* loop(timestamp), a frame while paused or after game over: only the drawing happens
TickSkip(cl) ==
  /\ ~shouldUpdate(cl, gameStateRef)
  /\ lastTimeRef' = 1
  /\ lastOp' = "skip"
  /\ UNCHANGED <<running, score, highScore, paused, gameStateRef, closure,
                 canvas, dpr, localStorage, writeFailed, inputs, mounted,
                 frameStep, maxScore, otherVars>>

\* the browser runs the oldest pending animation frame callback:
\* loop(timestamp), which ends with requestRef.current = requestAnimationFrame(loop)
Tick ==
  /\ rafQueue # << >>
  /\ rafQueue' = requestAnimationFrame(Tail(rafQueue), Head(rafQueue).closure)
  /\ \/ \E elapsed \in frameSteps, rg \in 0..(GapChoices - 1),
           rh \in 0..(HeightChoices - 1), rw \in 0..(WidthChoices - 1),
           ok \in BOOLEAN :
          TickUpdate(Head(rafQueue).closure, elapsed, rg, rh, rw, ok)
     \/ TickSkip(Head(rafQueue).closure)

\* handleKey with Space or ArrowUp, and handleTouch: both call jump()
Jump ==
  /\ mounted
  /\ inputs < MaxInputs
  /\ inputs' = inputs + 1
  /\ gameStateRef' = jumped(gameStateRef)
  /\ lastOp' = "jump"
  /\ UNCHANGED <<running, score, highScore, paused, lastTimeRef, closure,
                 canvas, dpr, localStorage, writeFailed, rafQueue, mounted,
                 frameStep, maxScore, otherVars>>

\* restart() without its setScore(0)
RestartKeepingScore ==
  /\ mounted
  /\ inputs < MaxInputs
  /\ inputs' = inputs + 1
  /\ gameStateRef' = resetGameState
  /\ running' = TRUE
  /\ lastTimeRef' = 0
  /\ lastOp' = "restart"
  /\ UNCHANGED <<score, highScore, paused, closure, canvas, dpr, localStorage,
                 writeFailed, rafQueue, mounted, frameStep, maxScore, otherVars>>

\* handleKey with R, or the Restart button: restart()
Restart ==
  /\ mounted
  /\ inputs < MaxInputs
  /\ inputs' = inputs + 1
  /\ gameStateRef' = resetGameState
  /\ score' = 0
  /\ running' = TRUE
  /\ lastTimeRef' = 0
  /\ lastOp' = "restart"
  /\ UNCHANGED <<highScore, paused, closure, canvas, dpr, localStorage,
                 writeFailed, rafQueue, mounted, frameStep, maxScore, otherVars>>

\* handleKey with P: togglePause(); setPaused flips the state, the cleanup of
\* the loop effect cancels the pending frame and the effect runs again with
\* the values of the new render and requests a frame for its own loop
TogglePause ==
  /\ mounted
  /\ inputs < MaxInputs
  /\ inputs' = inputs + 1
  /\ paused' = ~paused
  /\ closure' = loopClosure(~paused, score, highScore)
  /\ rafQueue' = requestAnimationFrame(cancelAnimationFrame(rafQueue), closure')
  /\ lastOp' = "pause"
  /\ UNCHANGED <<running, score, highScore, gameStateRef, lastTimeRef,
                 canvas, dpr, localStorage, writeFailed, mounted, frameStep,
                 maxScore, otherVars>>

\* the window's resize event: resize(), with the canvas element's width in
\* widths and the pixel ratio in dprs
ResizeTo(widths, dprs) ==
  /\ mounted
  /\ inputs < MaxInputs
  /\ inputs' = inputs + 1
  /\ \E w \in widths, d \in dprs :
        /\ dpr' = d
        /\ canvas' = resizedCanvas(w, d)
        /\ <<canvas', dpr'>> # <<canvas, dpr>>
  /\ lastOp' = "resize"
  /\ UNCHANGED <<running, score, highScore, paused, gameStateRef, lastTimeRef,
                 closure, localStorage, writeFailed, rafQueue, mounted,
                 frameStep, maxScore, otherVars>>

Resize == ResizeTo(ClientWidths, Dprs)

\* the component is unmounted: the cleanups of the effects remove the
\* listeners and cancel the pending frame
Unmount ==
  /\ mounted
  /\ inputs < MaxInputs
  /\ inputs' = inputs + 1
  /\ mounted' = FALSE
  /\ rafQueue' = cancelAnimationFrame(rafQueue)
  /\ lastOp' = "unmount"
  /\ UNCHANGED <<running, score, highScore, paused, gameStateRef, lastTimeRef,
                 closure, canvas, dpr, localStorage, writeFailed, frameStep,
                 maxScore, otherVars>>

Next == Tick \/ Jump \/ Restart \/ TogglePause \/ Resize \/ Unmount

Spec == Init /\ [][Next]_vars

-----------------------------------------------------------------------------
(* Sessions on a display with a fixed frame interval of 20 or 40 ms, in   *)
(* which the only input is the jump.  The browser runs a pending animation *)
(* frame callback in its next frame, hence the weak fairness of Tick.      *)

InitFrames ==
  /\ InitGame
  /\ localStorage = 0
  /\ frameStep \in 1..(maxDtMs \div StepMs)
  /\ rectA = NoRect /\ rectB = NoRect /\ rectHit = << >>
  /\ ClassicsNotRendered

NextJump == Tick \/ Jump

SpecJump == InitFrames /\ [][NextJump]_vars /\ WF_vars(Tick)

-----------------------------------------------------------------------------
(* Sessions in which resizes make the canvas wide enough for several       *)
(* obstacles; the inputs are the jump and the resize.                      *)

InitWide ==
  /\ Init
  /\ localStorage = 0
  /\ dpr = 2

NextWide == Tick \/ Jump \/ ResizeTo(WideWidths, WideDprs)

SpecWide == InitWide /\ [][NextWide]_vars

-----------------------------------------------------------------------------
(* Sessions that keep running, on a display with a fixed frame interval:   *)
(* the player's moves are left out and every frame finds the player clear  *)
(* of the obstacles.  The speed, the score and the obstacles of a session  *)
(* do not depend on the player, so these are the speeds, scores and        *)
(* obstacles of the sessions that no collision ends.                       *)

InitRunning ==
  /\ InitGameOn(WideWidths, Dprs \cup WideDprs)
  /\ canvas.width = minCanvasWidth \/ canvas.width > spawnEarlyTime
  /\ localStorage = 0
  /\ frameStep \in 1..(maxDtMs \div StepMs)
  /\ rectA = NoRect /\ rectB = NoRect /\ rectHit = << >>
  /\ ClassicsNotRendered

\* loop(timestamp) in a frame whose collision detection finds no collision
TickRunning ==
  /\ rafQueue # << >>
  /\ shouldUpdate(Head(rafQueue).closure, gameStateRef)
  /\ gameStateRef.speed < speedCap * SPS
  /\ \E rg \in 0..(GapChoices - 1), rh \in 0..(HeightChoices - 1),
        rw \in 0..(WidthChoices - 1) :
       \E st1 \in {updated(gameStateRef, canvas, dpr,
                            dtOf(lastTimeRef, frameStep), rg, rh, rw)} :
          /\ ( /\ willSpawn(gameStateRef, canvas.width, dtOf(lastTimeRef, frameStep))
                /\ gameStateRef.speed < MaxDrawSpeed * SPS )
               \/ (rg = 0 /\ rh = 0 /\ rw = 0)
          /\ gameStateRef' = st1
          /\ score' = IF st1.score > Head(rafQueue).closure.score
                        THEN st1.score ELSE score
  /\ lastTimeRef' = 1
  /\ rafQueue' = requestAnimationFrame(Tail(rafQueue), Head(rafQueue).closure)
  /\ lastOp' = "update"
  /\ UNCHANGED <<running, highScore, paused, closure, canvas, dpr, localStorage,
                 writeFailed, inputs, mounted, frameStep, maxScore, otherVars>>

SpecRunning == InitRunning /\ [][TickRunning]_vars /\ WF_vars(TickRunning)

-----------------------------------------------------------------------------
(* rectsCollide on its own: applied to every pair of small rectangles *)

Rects == [x : 0..MaxCoord, y : 0..MaxCoord, width : 1..MaxCoord, height : 1..MaxCoord]

InitRects ==
  /\ running = TRUE /\ score = 0 /\ localStorage = 0 /\ highScore = 0
  /\ maxScore = 0 /\ paused = FALSE /\ gameStateRef = resetGameState
  /\ lastTimeRef = 0 /\ closure = loopClosure(FALSE, 0, 0)
  /\ dpr = 2 /\ canvas = resizedCanvas(minCanvasWidth, 2)
  /\ writeFailed = FALSE /\ lastOp = "mount" /\ inputs = 0
  /\ rafQueue = requestAnimationFrame(<< >>, closure)
  /\ mounted = TRUE /\ frameStep = 0
  /\ rectA \in Rects /\ rectB \in Rects /\ rectHit = << >>
  /\ ClassicsNotRendered

Collide ==
  /\ rectHit = << >>
  /\ rectHit' = <<rectsCollide(rectA, rectB)>>
  /\ UNCHANGED <<gameVars, rectA, rectB, classicsVars>>

SpecRects == InitRects /\ [][Collide]_vars

-----------------------------------------------------------------------------
(* Geometry used to state the claims, independent of rectsCollide *)

\* the length by which two intervals [lo1, lo1 + len1] and [lo2, lo2 + len2] overlap
overlapLen(lo1, len1, lo2, len2) == Min(lo1 + len1, lo2 + len2) - Max(lo1, lo2)
overlapX(a, b) == overlapLen(a.x, a.width, b.x, b.width)
overlapY(a, b) == overlapLen(a.y, a.height, b.y, b.height)

\* positive overlap on both axes
overlaps(a, b) == overlapX(a, b) > 0 /\ overlapY(a, b) > 0
\* the rectangles, taken with their edges, have a point in common
meets(a, b) == overlapX(a, b) >= 0 /\ overlapY(a, b) >= 0
\* a contains b
contains(a, b) ==
  /\ a.x <= b.x /\ b.x + b.width <= a.x + a.width
  /\ a.y <= b.y /\ b.y + b.height <= a.y + a.height

\* the obstacles' ground-anchored rectangles that satisfy R with the player's
obstaclesWith(R(_, _), st, cv, d) ==
  { i \in 1..Len(st.obstacles) :
      R(playerRect(st.player), obstacleRect(st.obstacles[i], cv, d)) }

-----------------------------------------------------------------------------
(* Claims *)

\* C1: when every localStorage write has succeeded, the high score, in memory
\* and persisted, is the maximum of the value loaded at startup and of the
\* scores of all the sessions that have ended.
C1_HighScoreIsMaximum ==
  ~writeFailed => (highScore = maxScore /\ localStorage = maxScore)

\* C2: the high score, in memory and persisted, changes only in a tick that
\* detects game over, and only to the session's score, which is strictly
\* greater than the high score before; so it never decreases.
C2_HighScoreOnlyGrows ==
  [][ (highScore' # highScore \/ localStorage' # localStorage) =>
        /\ lastOp' = "update"
        /\ gameStateRef.running /\ ~gameStateRef'.running
        /\ highScore' = gameStateRef'.score
        /\ highScore' > highScore
        /\ localStorage' \in {localStorage, highScore'}
        /\ localStorage' >= localStorage ]_vars

\* C3: the session score never decreases in a tick, a jump or a pause toggle
\* (nor in a resize), and every restart sets it to 0.
C3_ScoreMonotone ==
  [][ IF lastOp' = "restart"
        THEN gameStateRef'.score = 0
        ELSE gameStateRef'.score >= gameStateRef.score ]_vars

\* C3, witness: the first input is a restart, pressed after a session ended
\* with a new high score, that is from a positive score.
C3_RestartedFromPositiveScore ==
  /\ lastOp = "restart" /\ inputs = 1
  /\ highScore > MaxStoredHigh
  /\ gameStateRef.score = 0

\* C4: after the update step of a tick, the player's y is at most the groundY
\* that tick computed.
C4_NeverBelowGround ==
  lastOp = "update" =>
     gameStateRef.player.y <= groundYOf(canvas, dpr, gameStateRef.player)

\* C4, witness: an update in which the clamp has put a player that a resize
\* had left below the ground line back on it.
C4_ClampedAfterResize ==
  /\ lastOp = "update" /\ inputs >= 1
  /\ dpr = 2
  /\ gameStateRef.player.grounded /\ gameStateRef.player.vy = 0
  /\ gameStateRef.player.y = groundYOf(canvas, dpr, gameStateRef.player)
  /\ gameStateRef.score > 0

\* C5: rectsCollide returns true exactly for the rectangles that overlap by a
\* positive length on both axes; it returns false for rectangles that do not
\* overlap and for rectangles that only touch at a boundary.
C5_CollideIffOverlap ==
  rectHit # << >> => (rectHit[1] <=> overlaps(rectA, rectB))

\* C6: a jump changes the session only when the session runs, the game is not
\* paused and the player is grounded; it then sets vy to the impulse and
\* clears grounded; in every other state it changes nothing.
C6_JumpOnlyInRunning ==
  [][ lastOp' = "jump" =>
        gameStateRef' =
          IF gameStateRef.running /\ ~paused /\ gameStateRef.player.grounded
            THEN [gameStateRef EXCEPT !.player.vy = -jumpImpulse,
                                      !.player.grounded = FALSE]
            ELSE gameStateRef ]_vars

\* C7: a tick while paused or after game over changes neither the session
\* (player, obstacles, speed, score, ground offset, running flag) nor the
\* React state nor the persisted high score.
C7_TickSkipsUpdate ==
  [][ (lastOp' \in {"update", "skip"} /\ (paused \/ ~gameStateRef.running)) =>
        /\ lastOp' = "skip"
        /\ UNCHANGED <<gameStateRef, running, score, highScore, paused,
                       localStorage>> ]_vars

\* C7, witness: a tick has run while the game was paused in mid-session.
C7_TickedWhilePaused ==
  /\ lastOp = "skip" /\ paused
  /\ gameStateRef.running
  /\ gameStateRef.speed > obstacleSpeedStart * SPS

\* C8: after a restart the session is the default one and the controller is
\* in Running: the session runs, the game is not paused and the next tick
\* updates.
C8_RestartRuns ==
  lastOp = "restart" =>
     /\ gameStateRef = resetGameState
     /\ score = 0 /\ running
     /\ ~paused
     /\ shouldUpdate(closure, gameStateRef)

\* C9: the game is paused only while the session runs.
C9_PausedOnlyWhileRunning == paused => gameStateRef.running

C11_GameOverIsTerminal ==
  [][ /\ (~gameStateRef.running /\ gameStateRef'.running) => lastOp' = "restart"
      /\ (~running /\ running') => lastOp' = "restart" ]_vars

\* C11, witness: after game over the game was paused and then a jump was
\* pressed, and the session still does not run.
C11_JumpedAfterGameOver ==
  /\ lastOp = "jump" /\ paused
  /\ ~gameStateRef.running /\ ~running

\* C12: a tick that ends the session with a new high score and leaves the
\* persisted value different from the score, which is what a write that
\* throws does, still completes: the session and the React state are in game
\* over, the high score in memory is the session's score and the persisted
\* value is unchanged.
C12_WriteFailureSwallowed ==
  [][ ( /\ lastOp' = "update"
        /\ gameStateRef.running /\ ~gameStateRef'.running
        /\ beatsHighScore(gameStateRef', closure)
        /\ localStorage' # gameStateRef'.score )
      => /\ writeFailed'
         /\ ~running'
         /\ highScore' = gameStateRef'.score
         /\ localStorage' = localStorage
         /\ lastTimeRef' = 1 ]_vars

\* C12, witness: the tick that ended the session could not persist its new
\* high score.
C12_HighScoreNotPersisted ==
  /\ lastOp = "update" /\ writeFailed
  /\ ~gameStateRef.running /\ ~running
  /\ highScore = gameStateRef.score
  /\ localStorage < highScore

\* dt of the update step that leads from session st to session st1, in steps
stepsOf(st, st1) == (st1.speed - st.speed) \div obstacleAcceleration

\* the update step from obs to obs1 has appended a new obstacle: the last
\* obstacle is right of where the last one was
hasSpawned(obs, obs1) ==
  /\ Len(obs1) > 0
  /\ (Len(obs) = 0 \/ obs1[Len(obs1)].x > obs[Len(obs)].x)

\* the obstacles of obs1 that were there before the update step
keptOf(obs, obs1) ==
  IF hasSpawned(obs, obs1) THEN SubSeq(obs1, 1, Len(obs1) - 1) ELSE obs1

\* C13: an update step creates an obstacle only at x = viewport width + gap
\* with a gap in [360, 700], the viewport width being the logical width the
\* drawing uses (canvas.width / devicePixelRatio), for every canvas size and
\* pixel ratio; and every obstacle it keeps has moved left by speed * dt.
C13_SpawnedAtViewportWidthPlusGap ==
  [][ lastOp' = "update" =>
        LET obs  == gameStateRef.obstacles
            obs1 == gameStateRef'.obstacles
            kept == keptOf(obs, obs1)
            k    == stepsOf(gameStateRef, gameStateRef')
        IN  /\ hasSpawned(obs, obs1) =>
                 obs1[Len(obs1)].x - viewW(canvas', dpr')
                    \in (obstacleMinGap * PX)..(obstacleMaxGap * PX)
            /\ \A i \in 1..Len(kept) :
                  \E j \in 1..Len(obs) :
                     /\ kept[i] = [obs[j] EXCEPT !.x = obs[j].x - gameStateRef.speed * k]
                     /\ kept[i].x <= obs[j].x ]_vars

\* C19: the displayed score (the React state `score`) never exceeds the
\* session's score, whatever closure the loop runs with, and it is 0 right
\* after a restart.
C19_DisplayedScoreAtMostScore ==
  /\ score <= gameStateRef.score
  /\ lastOp = "restart" => score = 0

\* C19, witness: a restart right after a pause toggle that re-created the
\* loop closure with a positive displayed score.
C19_RestartedWithStaleClosure ==
  /\ lastOp = "restart"
  /\ closure.score > 0
  /\ score = 0 /\ gameStateRef.score = 0

\* C15: while the component is mounted, in every state (running, paused,
\* game over), exactly one animation frame callback is pending: that of the
\* loop of the current effect, the one requestRef.current refers to; a pause
\* toggle leaves no callback of the former loop behind; after the unmount no
\* callback is pending and no tick runs.
C15_OneFrameLoopChain ==
  /\ [] ( IF mounted
            THEN /\ Len(rafQueue) = 1
                 /\ rafQueue[1].current
                 /\ rafQueue[1].closure = closure
                 /\ closure.paused = paused
            ELSE rafQueue = << >> )
  /\ [][ lastOp' \in {"update", "skip"} =>
            /\ mounted
            /\ Head(rafQueue).closure = closure ]_vars

\* C15, witness: the component was unmounted in game over, after a pause
\* toggle had re-created the loop.
C15_UnmountedAfterPauseInGameOver ==
  /\ lastOp = "unmount" /\ ~mounted
  /\ paused /\ closure.paused
  /\ ~gameStateRef.running

\* the session is in the state a jump from the ground leaves
jumpStarted(st) ==
  /\ st.running
  /\ ~st.player.grounded
  /\ st.player.vy = -jumpImpulse

\* an upper bound of the duration of a jump, in steps: the flight time
\* 2 * impulse / gravity and two frames
jumpSteps == (2 * jumpImpulse * SPS) \div gravity + 2 * (maxDtMs \div StepMs)

\* an upper bound of the distance the obstacles of session st cover during a jump
jumpReach(st) == (st.speed + obstacleAcceleration * jumpSteps) * jumpSteps

\* every obstacle is out of range of a jump: it cannot reach the player
\* before the landing
noObstacleInRange(st) ==
  \A i \in 1..Len(st.obstacles) :
     st.obstacles[i].x > st.player.x + st.player.width + jumpReach(st)

\* the player stands on the ground line
landed(st, cv, d) ==
  /\ st.player.grounded
  /\ st.player.vy = 0
  /\ st.player.y = groundYOf(cv, d, st.player)

\* C14: a jump on a grounded player of a running session sets vy to the
\* negative impulse and clears grounded; the first tick with dt > 0 after it
\* moves the player up (y decreases); and when no obstacle is in range, the
\* player is eventually back on the ground line with grounded set and vy = 0.
C14_JumpArcReturnsToGround ==
  /\ [][ ( /\ lastOp' = "jump"
            /\ gameStateRef.running /\ gameStateRef.player.grounded )
          => /\ jumpStarted(gameStateRef')
             /\ gameStateRef'.player.y = gameStateRef.player.y ]_vars
  /\ [][ ( /\ lastOp = "jump" /\ jumpStarted(gameStateRef)
            /\ lastOp' = "update" /\ stepsOf(gameStateRef, gameStateRef') > 0 )
          => /\ gameStateRef'.player.y < gameStateRef.player.y
             /\ ~gameStateRef'.player.grounded ]_vars
  /\ ( /\ lastOp = "jump" /\ jumpStarted(gameStateRef)
        /\ noObstacleInRange(gameStateRef) )
       ~> landed(gameStateRef, canvas, dpr)

\* C14, witness: a jump has just left the ground, in a session that has
\* obstacles, all of them out of range.
C14_JumpedWithNoObstacleInRange ==
  /\ lastOp = "jump" /\ jumpStarted(gameStateRef)
  /\ gameStateRef.obstacles # << >>
  /\ noObstacleInRange(gameStateRef)

\* the speed below the model's cap of a session with a fixed frame interval
belowRunCap(st) == st.speed < (MaxRunSpeed - 1) * SPS

\* C18: in a session that keeps running with frames every 20 ms or every
\* 40 ms, the score never decreases and from every state it eventually
\* changes, that is, becomes strictly larger.
C18_ScoreEventuallyLarger ==
  /\ [][gameStateRef'.score >= gameStateRef.score]_vars
  /\ \A r \in 0..(ScoreClasses - 1) :
        (gameStateRef.score % ScoreClasses = r /\ belowRunCap(gameStateRef))
           ~> (gameStateRef.score % ScoreClasses # r)

\* C18, witness: with frames every 20 ms the score has become positive.
C18_ScoredAtShortFrames ==
  /\ frameStep = 1
  /\ gameStateRef.running
  /\ gameStateRef.score > 0 /\ score > 0

\* the obstacles of obs1 that are none of the obstacles of obs moved by an
\* update step of k steps at this speed: the ones the step has spawned
spawnedIn(obs, obs1, speed, k) ==
  { i \in 1..Len(obs1) :
      \A j \in 1..Len(obs) : obs1[i] # [obs[j] EXCEPT !.x = obs[j].x - speed * k] }

\* the last update of session st has spawned its last obstacle, which has
\* not moved yet
justSpawned(st) ==
  /\ st.obstacles # << >>
  /\ st.obstacles[Len(st.obstacles)].x = st.lastSpawnX

\* an upper bound of the speed, in px/s, a session gains from one spawn to the next
spawnSpeedGain ==
  (obstacleAcceleration * (spawnEarlyTime + obstacleMaxGap)) \div obstacleSpeedStart + 2

\* the speed is so far below the model's cap that the next spawn is within it
belowSpawnCap(st) == st.speed < (MaxRunSpeed - spawnSpeedGain) * SPS

\* C20: after every update of a running session the obstacle sequence is not
\* empty and holds no obstacle whose right edge is at or left of -100; an
\* update spawns at most one obstacle; and in a session that keeps running
\* obstacles are spawned again and again: from every state a spawn follows,
\* and after every spawn a state in which the new obstacle has moved on.
C20_ObstaclesNeverRunOut ==
  /\ [] ( lastOp = "update" =>
           /\ gameStateRef.obstacles # << >>
           /\ \A i \in 1..Len(gameStateRef.obstacles) :
                 gameStateRef.obstacles[i].x + gameStateRef.obstacles[i].width
                    > -(offscreenMargin * PX) )
  /\ [][ lastOp' = "update" =>
            Cardinality(spawnedIn(gameStateRef.obstacles, gameStateRef'.obstacles,
                                  gameStateRef.speed,
                                  stepsOf(gameStateRef, gameStateRef'))) <= 1 ]_vars
  /\ belowSpawnCap(gameStateRef) ~> justSpawned(gameStateRef)
  /\ belowSpawnCap(gameStateRef) ~> ~justSpawned(gameStateRef)

\* C20, witness: late in a session an update has removed the only obstacle
\* and spawned the next one.
C20_RespawnedAfterRemoval ==
  /\ lastOp = "update"
  /\ justSpawned(gameStateRef)
  /\ Len(gameStateRef.obstacles) = 1
  /\ gameStateRef.speed > (obstacleSpeedStart + spawnSpeedGain) * SPS

\* C17: the obstacles are kept in spawn order and that order is left to
\* right: each obstacle is at or left of the one spawned after it, whatever
\* the canvas widths of the session.
C17_ObstaclesLeftToRight ==
  \A i \in 1..(Len(gameStateRef.obstacles) - 1) :
     gameStateRef.obstacles[i].x <= gameStateRef.obstacles[i + 1].x

\* C17, witness: the session holds two obstacles, spawned on canvases of
\* different widths; the player has jumped over the first one, which is
\* leaving the screen on the left, and the session goes on.
C17_TwoObstaclesFirstLeaving ==
  /\ lastOp = "update" /\ gameStateRef.running
  /\ Len(gameStateRef.obstacles) = 2
  /\ canvas.width > spawnEarlyTime
  /\ gameStateRef.obstacles[1].x + gameStateRef.obstacles[1].width < 0
  /\ gameStateRef.obstacles[2].x > gameStateRef.obstacles[1].x

-----------------------------------------------------------------------------
(* The Classics component (the second implementation of the runner) *)

\* Its numbers. Vertical positions are measured from the ground line
\* height - 80, the y of a standing player, growing downwards as on the canvas.
classicsPlayerX == 50
classicsPlayerSize == 50
classicsGroundLine == 80
classicsGravity == 1
classicsJumpSpeed == 18
classicsGameSpeed == 6
classicsSpawnFrames == 100
classicsObstacleLine == 50
classicsObstacleWidth == 40
classicsObstacleHeight == 40

\* window.innerWidth when the component mounts
InnerWidths == {200}
\* floor(Math.random() * 20), the extra width of a spawned obstacle
WidthDraws == {0, 19}
\* the number of runs of the effect a session is followed through
MaxEffects == 5

\* the locals of a run of the effect, before its first frame: isJumping is
\* the value of the React state the run has captured, pending tells that a
\* requestAnimationFrame callback of its loop is waiting
effectLocals(jumping, width) ==
  [isJumping |-> jumping, width |-> width,
   player |-> [y |-> 0, dy |-> 0],
   obstacles |-> << >>, frame |-> 0, running |-> TRUE, pending |-> FALSE]

classicsObstacle(width, rw) ==
  [x |-> width, y |-> classicsGroundLine - classicsObstacleLine,
   width |-> classicsObstacleWidth + rw, height |-> classicsObstacleHeight]

classicsCollide(player, o) ==
  /\ classicsPlayerX < o.x + o.width
  /\ classicsPlayerX + classicsPlayerSize > o.x
  /\ player.y < o.y + o.height
  /\ player.y + classicsPlayerSize > o.y

removeAt(seq, i) == SubSeq(seq, 1, i - 1) \o SubSeq(seq, i + 1, Len(seq))

\* obstacles.forEach(...) from index i on: each obstacle visited moves left
\* and is tested against the player; one that has left the screen is spliced
\* out, so that the obstacle after it is not visited in this frame
RECURSIVE forEachObstacle(_, _, _, _, _)
forEachObstacle(obs, i, player, hit, gone) ==
  IF i > Len(obs)
  THEN [obstacles |-> obs, hit |-> hit, gone |-> gone]
  ELSE LET o == [obs[i] EXCEPT !.x = obs[i].x - classicsGameSpeed]
           moved == [obs EXCEPT ![i] = o]
           nowHit == hit \/ classicsCollide(player, o)
       IN  IF o.x + o.width < 0
           THEN forEachObstacle(removeAt(moved, i), i + 1, player, nowHit, gone + 1)
           ELSE forEachObstacle(moved, i + 1, player, nowHit, gone)

\* the player's part of a frame: the move, gravity, and the clamp to the
\* ground line, which also calls setIsJumping(false)
touchesDown(player) == player.y + player.dy > 0

playerStep(player) ==
  IF touchesDown(player)
  THEN [y |-> 0, dy |-> 0]
  ELSE [y |-> player.y + player.dy, dy |-> player.dy + classicsGravity]

\* one frame of loop() of a run whose loop is running: the locals after it,
\* whether it has called setIsJumping(false), and how often setScore
loopFrame(e, rw) ==
  LET player1 == playerStep(e.player)
      spawned == IF e.frame % classicsSpawnFrames = 0
                 THEN Append(e.obstacles, classicsObstacle(e.width, rw))
                 ELSE e.obstacles
      swept == forEachObstacle(spawned, 1, player1, FALSE, 0)
  IN  [locals |-> [e EXCEPT !.player = player1,
                            !.obstacles = swept.obstacles,
                            !.frame = e.frame + 1,
                            !.running = ~swept.hit,
                            !.pending = TRUE],
       landed |-> touchesDown(e.player),
       gone |-> swept.gone]

\* the effect's cleanup: the loop of the current run stops
cleanedUp(effs) ==
  IF effs = << >> THEN effs ELSE [effs EXCEPT ![Len(effs)].running = FALSE]

\* a run of the effect: fresh locals and, with loop(), their first frame
effectRun(jumping, width, rw) == loopFrame(effectLocals(jumping, width), rw).locals

\* a change of isJumping re-renders the component: the cleanup of the
\* current run and a new run of the effect, whose keydown listener is added
\* to the ones of the earlier runs
rerendered(effs, jumping, rw) ==
  Append(cleanedUp(effs), effectRun(jumping, effs[Len(effs)].width, rw))

\* jump() of a run: its test and its assignment
canJump(e) == ~e.isJumping /\ e.player.y >= 0
jumpedLocals(e) == [e EXCEPT !.player.dy = -classicsJumpSpeed]

current == effects[Len(effects)]

InitClassics ==
  /\ isJumping = FALSE
  /\ classicsScore = 0
  /\ \E w \in InnerWidths, rw \in WidthDraws :
        effects = <<effectRun(FALSE, w, rw)>>
  /\ classicsOp = "mount"

\* an animation frame: the pending requestAnimationFrame callbacks run in
\* the order of their requests; the callback of a loop that was stopped
\* returns at once, the one of a running loop is a frame of it; the
\* component re-renders afterwards if isJumping has changed
RECURSIVE scoredIn(_, _, _)
scoredIn(effs, i, rw) ==
  IF i > Len(effs) THEN 0
  ELSE scoredIn(effs, i + 1, rw)
         + (IF effs[i].pending /\ effs[i].running
            THEN loopFrame(effs[i], rw).gone ELSE 0)

ClassicsFrame ==
  /\ \E i \in DOMAIN effects : effects[i].pending
  /\ \E rw \in WidthDraws :
       LET effs == [i \in DOMAIN effects |->
                      IF effects[i].pending /\ effects[i].running
                      THEN loopFrame(effects[i], rw).locals
                      ELSE [effects[i] EXCEPT !.pending = FALSE]]
           touched == \E i \in DOMAIN effects :
                        /\ effects[i].pending /\ effects[i].running
                        /\ loopFrame(effects[i], rw).landed
       IN  /\ classicsScore' = classicsScore + scoredIn(effects, 1, rw)
           /\ isJumping' = (isJumping /\ ~touched)
           /\ effects' = IF isJumping' # isJumping
                         THEN rerendered(effs, isJumping', rw)
                         ELSE effs
  /\ classicsOp' = "frame"
  /\ UNCHANGED <<gameVars, rectVars>>

\* a keydown of Space: the listener of every run of the effect calls the
\* jump() of its run
ClassicsSpace ==
  /\ effects # << >>
  /\ Len(effects) < MaxEffects
  /\ LET effs == [i \in DOMAIN effects |->
                    IF canJump(effects[i]) THEN jumpedLocals(effects[i])
                    ELSE effects[i]]
         asked == \E i \in DOMAIN effects : canJump(effects[i])
     IN  /\ isJumping' = (isJumping \/ asked)
         /\ \E rw \in WidthDraws :
              effects' = IF isJumping' # isJumping
                         THEN rerendered(effs, isJumping', rw)
                         ELSE effs
  /\ classicsOp' = "space"
  /\ UNCHANGED <<classicsScore, gameVars, rectVars>>

GamePageNotRendered ==
  /\ running = FALSE /\ score = 0 /\ localStorage = 0 /\ highScore = 0
  /\ maxScore = 0 /\ paused = FALSE /\ gameStateRef = resetGameState
  /\ lastTimeRef = 0 /\ closure = loopClosure(FALSE, 0, 0)
  /\ dpr = 2 /\ canvas = resizedCanvas(minCanvasWidth, 2)
  /\ writeFailed = FALSE /\ lastOp = "none" /\ inputs = 0
  /\ rafQueue = << >> /\ mounted = FALSE /\ frameStep = 0
  /\ rectA = NoRect /\ rectB = NoRect /\ rectHit = << >>

InitClassicsPage == InitClassics /\ GamePageNotRendered

NextClassics == ClassicsFrame \/ ClassicsSpace

SpecClassics == InitClassicsPage /\ [][NextClassics]_vars

\* the loops of the runs of the effect that are running
runningLoops == {i \in DOMAIN effects : effects[i].running}

\* C16: a keydown of Space while the player stands on the ground and no jump
\* is under way starts a jump in the session that is running: the run of the
\* effect stays the current one with its obstacles, its frame counter and
\* its loop, the player has the jump speed, and in the frames that follow a
\* moving-up player is higher than before; at most one loop is running.
C16_JumpKeepsSession ==
  /\ [](Cardinality(runningLoops) <= 1)
  /\ [][ (classicsOp' = "space" /\ current.running /\ ~isJumping
            /\ current.player.y >= 0)
         => /\ Len(effects') = Len(effects)
            /\ effects'[Len(effects)].running
            /\ effects'[Len(effects)].frame = current.frame
            /\ effects'[Len(effects)].obstacles = current.obstacles
            /\ effects'[Len(effects)].player.dy = -classicsJumpSpeed ]_vars
  /\ [][ (classicsOp' = "frame" /\ current.running /\ current.pending
            /\ current.player.dy < 0 /\ Len(effects') = Len(effects)
            /\ effects'[Len(effects)].frame = current.frame + 1)
         => effects'[Len(effects)].player.y < current.player.y ]_vars

=============================================================================
